---- MODULE Spec2Model ----
(***************************************************************************)
(* Model of crypto_exchange_handler/exchange_template.py: the ExchangeAPI  *)
(* base class (ten contract methods that raise NotImplementedError unless  *)
(* an adapter overrides them), dump_market_data_to_file and               *)
(* load_market_data_file.                                                  *)
(*                                                                         *)
(* Text is modelled character by character: a string is a sequence of      *)
(* one-character strings, a file is a sequence of lines (the line          *)
(* terminator written by csv.writer and consumed by csv.reader is the      *)
(* only thing abstracted).  A Python number is [t, v] with t its type      *)
(* ("int" or "float") and v its value counted in tenths, so 10 is          *)
(* [t |-> "int", v |-> 100] and 10.5 is [t |-> "float", v |-> 105].        *)
(* A value of Optional type is <<>> (None) or <<x>>.                       *)
(* Each method call is one action; what the last call did is kept in       *)
(* call, result, printed, retrievals, candles and handles.                 *)
(***************************************************************************)
EXTENDS Integers, Sequences, FiniteSets, TLC

VARIABLES
    adapter,     \* the contract methods the concrete class overrides
    feed,        \* the candle history the adapter's exchange serves
    fs,          \* file system: path -> [exists, lines]
    call,        \* the last call: method and arguments
    result,      \* how the last call ended: a returned value or a raised exception
    printed,     \* what the last call printed
    retrievals,  \* the retrieval methods the last call invoked, in order
    candles,     \* dump's local variable candles in the last call
    handles,     \* the file objects the last call opened
    lastDump     \* history: path -> the sequence the last dump to it wrote completely

vars == <<adapter, feed, fs, call, result, printed, retrievals, candles, handles, lastDump>>

\* Bounds of the model.
MaxCandles == 2
MaxRows == 3

-----------------------------------------------------------------------------
\* Strings.

DOTCSV == <<".", "c", "s", "v">>

P_csv == <<"x", ".", "c", "s", "v">>
P_txt == <<"d", ".", "t", "x", "t">>
P_bak == <<"x", ".", "c", "s", "v", ".", "b">>
Paths == {P_csv, P_txt, P_bak}

\* str.find(sub): the lowest 0-based index where sub occurs in s, or -1.
Find(s, sub) ==
    LET hits == {i \in 1..(Len(s) - Len(sub) + 1) : SubSeq(s, i, i + Len(sub) - 1) = sub}
    IN  IF hits = {} THEN -1 ELSE (CHOOSE i \in hits : \A j \in hits : i <= j) - 1

K_ts    == <<"t", "s">>
K_open  == <<"o", "p", "e", "n">>
K_high  == <<"h", "i", "g", "h">>
K_low   == <<"l", "o", "w">>
K_close == <<"c", "l", "o", "s", "e">>

DigitChars == <<"0", "1", "2", "3", "4", "5", "6", "7", "8", "9">>
IsDigit(c) == \E i \in 1..10 : DigitChars[i] = c
DigitVal(c) == (CHOOSE i \in 1..10 : DigitChars[i] = c) - 1

RECURSIVE NatStr(_)
NatStr(n) == IF n < 10 THEN <<DigitChars[n + 1]>>
             ELSE NatStr(n \div 10) \o <<DigitChars[(n % 10) + 1]>>

Abs(n) == IF n < 0 THEN -n ELSE n

\* Python values that reach csv.writer: int, float and str.
PyInt(n) == [t |-> "int", v |-> 10 * n, s |-> <<>>]
PyFloat(tenths) == [t |-> "float", v |-> tenths, s |-> <<>>]
PyStr(chars) == [t |-> "str", v |-> 0, s |-> chars]

\* float(x) of a number: the same value, of type float.
AsFloat(x) == PyFloat(x.v)

-----------------------------------------------------------------------------
\* csv.writer(csvfile, delimiter=",", quotechar="|", quoting=csv.QUOTE_MINIMAL)

\* The text csv.writer gives a field: a str as it is, an int by str(), a float
\* by repr().
field_text(x) ==
    CASE x.t = "str" -> x.s
      [] x.t = "int" -> (IF x.v < 0 THEN <<"-">> ELSE <<>>) \o NatStr(Abs(x.v) \div 10)
      [] x.t = "float" -> (IF x.v < 0 THEN <<"-">> ELSE <<>>)
                          \o NatStr(Abs(x.v) \div 10) \o <<".">>
                          \o <<DigitChars[(Abs(x.v) % 10) + 1]>>

RECURSIVE DoubleBars(_)
DoubleBars(text) ==
    IF text = <<>> THEN <<>>
    ELSE (IF Head(text) = "|" THEN <<"|", "|">> ELSE <<Head(text)>>) \o DoubleBars(Tail(text))

\* QUOTE_MINIMAL: a field holding the delimiter or the quotechar is quoted.
quote_field(text) ==
    IF \E i \in 1..Len(text) : text[i] \in {",", "|"}
    THEN <<"|">> \o DoubleBars(text) \o <<"|">>
    ELSE text

RECURSIVE JoinFields(_)
JoinFields(fields) ==
    IF fields = <<>> THEN <<>>
    ELSE IF Len(fields) = 1 THEN fields[1]
    ELSE fields[1] \o <<",">> \o JoinFields(Tail(fields))

\* writer.writerow(templist): one line of the file.
writerow(templist) ==
    JoinFields([i \in 1..Len(templist) |-> quote_field(field_text(templist[i]))])

\* A candle is a Python dict: its items in iteration order.
dict_keys(line) == [i \in 1..Len(line) |-> PyStr(line[i].k)]
dict_values(line) == [i \in 1..Len(line) |-> line[i].val]

\* dump_lines with the header row forgotten.
dump_lines_no_header(cs) == [i \in 1..Len(cs) |-> writerow(dict_values(cs[i]))]

\* The lines dump writes for a non-empty sequence: the header from the first
\* record's keys, then each record's values in that record's own order.
dump_lines(cs) ==
    <<writerow(dict_keys(cs[1]))>> \o [i \in 1..Len(cs) |-> writerow(dict_values(cs[i]))]

-----------------------------------------------------------------------------
\* csv.reader(csv_file, delimiter=",") and float()

\* One line split into fields: the delimiter outside double quotes separates,
\* a double quote at the start of a field opens a quoted part, "" inside it is
\* one quote.  An empty line is the empty row.
RECURSIVE ReadFields(_, _, _, _, _)
ReadFields(line, i, cur, inq, fields) ==
    IF i > Len(line) THEN fields \o <<cur>>
    ELSE LET c == line[i] IN
         IF inq
         THEN IF c = "\""
              THEN IF i < Len(line) /\ line[i + 1] = "\""
                   THEN ReadFields(line, i + 2, cur \o <<c>>, TRUE, fields)
                   ELSE ReadFields(line, i + 1, cur, FALSE, fields)
              ELSE ReadFields(line, i + 1, cur \o <<c>>, TRUE, fields)
         ELSE IF c = "," THEN ReadFields(line, i + 1, <<>>, FALSE, fields \o <<cur>>)
              ELSE IF c = "\"" /\ cur = <<>> THEN ReadFields(line, i + 1, cur, TRUE, fields)
              ELSE ReadFields(line, i + 1, cur \o <<c>>, FALSE, fields)

reader_row(line) == IF line = <<>> THEN <<>> ELSE ReadFields(line, 1, <<>>, FALSE, <<>>)

RECURSIVE NatVal(_)
NatVal(digits) ==
    IF digits = <<>> THEN 0
    ELSE 10 * NatVal(SubSeq(digits, 1, Len(digits) - 1)) + DigitVal(digits[Len(digits)])

AllDigits(text) == \A i \in 1..Len(text) : IsDigit(text[i])

\* float(text) for decimal literals: an optional sign, digits, an optional
\* point and digits, at least one digit.  ok = FALSE is ValueError.  The model's
\* numbers are tenths, so it holds no text with a second fractional digit.
parse_float(text) ==
    LET signed == text # <<>> /\ text[1] \in {"-", "+"}
        body   == IF signed THEN Tail(text) ELSE text
        dot    == Find(body, <<".">>)
        ipart  == IF dot = -1 THEN body ELSE SubSeq(body, 1, dot)
        fpart  == IF dot = -1 THEN <<>> ELSE SubSeq(body, dot + 2, Len(body))
        ok     == /\ AllDigits(ipart) /\ AllDigits(fpart)
                  /\ Len(ipart) + Len(fpart) >= 1
                  /\ Len(fpart) <= 1
        mag    == 10 * NatVal(ipart) + NatVal(fpart)
    IN  IF ok THEN [ok |-> TRUE, val |-> PyFloat(IF signed /\ text[1] = "-" THEN -mag ELSE mag)]
        ELSE [ok |-> FALSE, val |-> PyFloat(0)]

-----------------------------------------------------------------------------
\* How a call ends.

Return(tag, seq) == [kind |-> "return", exc |-> "", ret |-> tag, seq |-> seq]
Raise(exc) == [kind |-> "raise", exc |-> exc, ret |-> "", seq |-> <<>>]
ReturnNone == Return("None", <<>>)
ReturnMinusOne == Return("-1", <<>>)

None == <<>>
Some(x) == <<x>>

MSG_WRONG_PARAMS == "ERROR: Wrong paramaters. Provide amount or start"
MSG_NOT_CSV == "ERROR: Please provide .csv file"

-----------------------------------------------------------------------------
\* The contract methods and the adapter.

ContractOps == {"get_all_balances", "get_balance", "get_available_markets",
                "get_coin_price", "get_coins_prices", "get_order_book",
                "withdraw_asset", "create_order", "get_candles", "get_last_candles"}

\* base_method with `pass` for a body: the call returns None.
base_method_returns_none(op) == Return("None", <<>>)

\* A method of ExchangeAPI itself: raise NotImplementedError.
base_method(op) == Raise("NotImplementedError")

\* An adapter's get_last_candles: the `amount` most recent candles of its
\* history, or fewer.
adapter_get_last_candles(hist, amount) ==
    Return("tuple", SubSeq(hist, IF amount >= Len(hist) THEN 1 ELSE Len(hist) - amount + 1,
                           Len(hist)))

\* An adapter's get_candles: the candles of the range; the history here.
adapter_get_candles(hist, start, end) == Return("tuple", hist)

\* self.<op>(...) on an object whose class overrides the methods in `impl`.
call_method(impl, hist, op, amount, start, end) ==
    IF op \notin impl THEN base_method(op)
    ELSE IF op = "get_last_candles" THEN adapter_get_last_candles(hist, amount[1])
    ELSE IF op = "get_candles" THEN adapter_get_candles(hist, start, end)
    ELSE Return("opaque", <<>>)

Retrieval(op, symbol, interval, amount, start, end) ==
    [op |-> op, symbol |-> symbol, interval |-> interval,
     amount |-> amount, start |-> start, end |-> end]

-----------------------------------------------------------------------------
\* Files.

NoFile == [exists |-> FALSE, lines |-> <<>>]
File(lines) == [exists |-> TRUE, lines |-> lines]

Handle(path, mode) == [path |-> path, mode |-> mode, closed |-> FALSE]

\* with_exit as a close() at the end of the body: a raise skips it.
with_exit_on_success(h, out) == IF out.kind = "return" THEN [h EXCEPT !.closed = TRUE] ELSE h

\* Leaving `with open(...) as f:` with outcome `out` of its body: f is closed,
\* whether the body ended or raised.
with_exit(h, out) == [h EXCEPT !.closed = TRUE]

NoDump == [ok |-> FALSE, seq |-> <<>>]

-----------------------------------------------------------------------------
\* dump_market_data_to_file

\* selection with `if amount:` for the first test: amount 0 counts as absent.
selection_truthy(amount, start) ==
    IF amount # None /\ amount[1] # 0 THEN "last"
    ELSE IF start # None THEN "range"
    ELSE "none"

\* selection with the range retrieval for the else branch: no rejection.
selection_default_range(amount, start) == IF amount # None THEN "last" ELSE "range"

\* Which retrieval the arguments select: `amount is not None` first, then
\* `start is not None`, else none.
selection(amount, start) ==
    IF amount # None THEN "last"
    ELSE IF start # None THEN "range"
    ELSE "none"

\* How the body of dump's `with` block ends on what the retrieval returned:
\* candles[0] raises TypeError on None and IndexError on an empty sequence.
dump_body(r) ==
    IF r.ret # "tuple" THEN Raise("TypeError")
    ELSE IF r.seq = <<>> THEN Raise("IndexError")
    ELSE ReturnNone

Call(op, symbol, interval, file, amount, start, end) ==
    [op |-> op, symbol |-> symbol, interval |-> interval, file |-> file,
     amount |-> amount, start |-> start, end |-> end]

\* No call is in progress or awaiting its caller.
NoCall == Call("none", "", "", <<>>, None, None, None)

dump_market_data_to_file(symbol, interval, file, amount, start, end) ==
    LET sel  == selection(amount, start)
        op   == IF sel = "last" THEN "get_last_candles" ELSE "get_candles"
        r    == call_method(adapter, feed, op, amount, start, end)
        body == dump_body(r)
    IN  /\ call = NoCall
        /\ call' = Call("dump", symbol, interval, file, amount, start, end)
        /\ UNCHANGED <<adapter, feed>>
        /\ IF sel = "none"
           THEN /\ printed' = <<MSG_WRONG_PARAMS>>
                /\ result' = ReturnNone
                /\ retrievals' = <<>>
                /\ candles' = <<>>
                /\ handles' = <<>>
                /\ UNCHANGED <<fs, lastDump>>
           ELSE /\ printed' = <<>>
                /\ retrievals' =
                      <<IF sel = "last"
                        THEN Retrieval(op, symbol, interval, amount, None, None)
                        ELSE Retrieval(op, symbol, interval, None, start, end)>>
                /\ IF r.kind = "raise"
                   THEN /\ result' = r
                        /\ candles' = <<>>
                        /\ handles' = <<>>
                        /\ UNCHANGED <<fs, lastDump>>
                   ELSE /\ candles' = r.seq
                        /\ result' = body
                        /\ handles' = <<with_exit(Handle(file, "w"), body)>>
                        /\ fs' = [fs EXCEPT ![file] =
                                    File(IF body.kind = "return" THEN dump_lines(r.seq)
                                         ELSE <<>>)]
                        /\ lastDump' = [lastDump EXCEPT ![file] =
                                          IF body.kind = "return"
                                          THEN [ok |-> TRUE, seq |-> r.seq]
                                          ELSE NoDump]

-----------------------------------------------------------------------------
\* load_market_data_file

\* `file.find(".csv") == -1` is the rejection.
is_csv_path(file) == Find(file, DOTCSV) # -1

\* is_header with the skip forgotten: every line is a data row.
is_header_never(line_count) == FALSE

\* `line_count != 0` is a data row; line 0 is skipped.
is_header(line_count) == line_count = 0

\* row_record with 0.0 for a missing or unparsable column instead of the fault.
row_record_default(row) ==
    LET col(k) == IF k <= Len(row) /\ parse_float(row[k]).ok
                  THEN parse_float(row[k]).val ELSE PyFloat(0)
    IN  [ok |-> TRUE, exc |-> "",
         rec |-> [ts |-> col(1), open |-> col(2), high |-> col(3), low |-> col(4),
                  close |-> col(5)]]

\* The dict built from one row: float(row[0]) .. float(row[4]) in that order.
\* The first of the five that fails decides: IndexError past the row's end,
\* ValueError on text float() rejects.
row_record(row) ==
    LET bad == {k \in 1..5 : k > Len(row) \/ ~parse_float(row[k]).ok}
        k0  == CHOOSE k \in bad : \A j \in bad : k <= j
    IN  IF bad = {}
        THEN [ok |-> TRUE, exc |-> "",
              rec |-> [ts    |-> parse_float(row[1]).val,
                       open  |-> parse_float(row[2]).val,
                       high  |-> parse_float(row[3]).val,
                       low   |-> parse_float(row[4]).val,
                       close |-> parse_float(row[5]).val]]
        ELSE [ok |-> FALSE,
              exc |-> IF k0 > Len(row) THEN "IndexError" ELSE "ValueError",
              rec |-> <<>>]

\* The loop over csv_reader from line i on, with the candles gathered so far.
RECURSIVE load_loop(_, _, _)
load_loop(lines, i, acc) ==
    IF i > Len(lines) THEN Return("tuple", acc)
    ELSE IF is_header(i - 1) THEN load_loop(lines, i + 1, acc)
    ELSE LET rr == row_record(reader_row(lines[i]))
         IN  IF rr.ok THEN load_loop(lines, i + 1, Append(acc, rr.rec))
             ELSE Raise(rr.exc)

load_market_data_file(file) ==
    LET out == load_loop(fs[file].lines, 1, <<>>)
    IN  /\ call = NoCall
        /\ call' = Call("load", "", "", file, None, None, None)
        /\ retrievals' = <<>>
        /\ candles' = <<>>
        /\ UNCHANGED <<adapter, feed, fs, lastDump>>
        /\ IF ~is_csv_path(file)
           THEN /\ printed' = <<MSG_NOT_CSV>>
                /\ result' = ReturnMinusOne
                /\ handles' = <<>>
           ELSE IF ~fs[file].exists
           THEN /\ printed' = <<>>
                /\ result' = Raise("FileNotFoundError")
                /\ handles' = <<>>
           ELSE /\ printed' = <<>>
                /\ result' = out
                /\ handles' = <<with_exit(Handle(file, "r"), out)>>

-----------------------------------------------------------------------------
\* A direct call of one of the ten contract methods.

contract_call(op, amount, start, end) ==
    /\ call = NoCall
    /\ call' = Call(op, "BTC", "30m", <<>>, amount, start, end)
    /\ result' = call_method(adapter, feed, op, amount, start, end)
    /\ printed' = <<>>
    /\ retrievals' = <<>>
    /\ candles' = <<>>
    /\ handles' = <<>>
    /\ UNCHANGED <<adapter, feed, fs, lastDump>>

-----------------------------------------------------------------------------
\* Inputs.

Candle(ts, open, high, low, close) ==
    <<[k |-> K_ts, val |-> ts], [k |-> K_open, val |-> open], [k |-> K_high, val |-> high],
      [k |-> K_low, val |-> low], [k |-> K_close, val |-> close]>>

\* {ts:1, open:10, high:12, low:9, close:11}
CandleA == Candle(PyInt(1), PyInt(10), PyInt(12), PyInt(9), PyInt(11))
\* {ts:2, open:10.5, high:12.0, low:-0.5, close:11}
CandleB == Candle(PyInt(2), PyFloat(105), PyFloat(120), PyFloat(-5), PyInt(11))
\* {open:11, ts:3, high:13, low:10, close:12}: the same fields, another order
CandleC ==
    <<[k |-> K_open, val |-> PyInt(11)], [k |-> K_ts, val |-> PyInt(3)],
      [k |-> K_high, val |-> PyInt(13)], [k |-> K_low, val |-> PyInt(10)],
      [k |-> K_close, val |-> PyInt(12)]>>
CandlePool == {CandleA, CandleB, CandleC}

SeqsUpTo(S, n) == UNION {[1..m -> S] : m \in 0..n}

Feeds == SeqsUpTo(CandlePool, MaxCandles)

\* ts,open,high,low,close
L_header == JoinFields(<<K_ts, K_open, K_high, K_low, K_close>>)
\* 1,10,12,9,11
L_good1 == JoinFields(<<<<"1">>, <<"1", "0">>, <<"1", "2">>, <<"9">>, <<"1", "1">>>>)
\* 2.0,"10.5",12.0,-0.5,11,7   (a quoted field and a sixth column)
L_good2 == JoinFields(<<<<"2", ".", "0">>, <<"\"", "1", "0", ".", "5", "\"">>,
                        <<"1", "2", ".", "0">>, <<"-", "0", ".", "5">>, <<"1", "1">>,
                        <<"7">>>>)
\* 3,11,13,10   (four columns)
L_short == JoinFields(<<<<"3">>, <<"1", "1">>, <<"1", "3">>, <<"1", "0">>>>)
\* 4,11,x,10,12   (a non-numeric value)
L_text == JoinFields(<<<<"4">>, <<"1", "1">>, <<"x">>, <<"1", "0">>, <<"1", "2">>>>)
LinePool == {L_header, L_good1, L_good2, L_short, L_text}

Contents == {File(ls) : ls \in SeqsUpTo(LinePool, MaxRows)}

\* The classes: ExchangeAPI itself, and adapters overriding some methods.
Adapters == {{}, {"get_candles"}, {"get_last_candles"}, ContractOps}

Amounts == {None, Some(0), Some(2)}
Starts == {None, Some("s")}
Ends == {None, Some("e")}

-----------------------------------------------------------------------------
\* The specification.

\* Either some adapter and history with no file yet, or ExchangeAPI itself
\* with one file already there.
Init ==
    /\ \/ /\ adapter \in Adapters
          /\ feed \in Feeds
          /\ fs = [p \in Paths |-> NoFile]
       \/ /\ adapter = {}
          /\ feed = <<>>
          /\ \E p \in Paths, c \in Contents : fs = [q \in Paths |-> IF q = p THEN c ELSE NoFile]
    /\ call = NoCall
    /\ result = ReturnNone
    /\ printed = <<>>
    /\ retrievals = <<>>
    /\ candles = <<>>
    /\ handles = <<>>
    /\ lastDump = [p \in Paths |-> NoDump]

Dump ==
    \E file \in Paths, amount \in Amounts, start \in Starts, end \in Ends :
        dump_market_data_to_file("BTC", "30m", file, amount, start, end)

Load == \E file \in Paths : load_market_data_file(file)

Contract ==
    \E op \in ContractOps, amount \in Amounts, start \in Starts, end \in Ends :
        /\ (amount # None) <=> (op = "get_last_candles")
        /\ (start # None) <=> (op = "get_candles")
        /\ (end # None) => (op = "get_candles")
        /\ contract_call(op, amount, start, end)

\* The caller has taken the outcome of the last call; the files stay.
Done ==
    /\ call # NoCall
    /\ call' = NoCall
    /\ result' = ReturnNone
    /\ printed' = <<>>
    /\ retrievals' = <<>>
    /\ candles' = <<>>
    /\ handles' = <<>>
    /\ UNCHANGED <<adapter, feed, fs, lastDump>>

Next == Dump \/ Load \/ Contract \/ Done

Spec == Init /\ [][Next]_vars

-----------------------------------------------------------------------------
\* Properties.

SchemaKeys == <<K_ts, K_open, K_high, K_low, K_close>>

\* Every record has exactly the fields ts, open, high, low, close, in that order.
InSchema(cs) ==
    /\ cs # <<>>
    /\ \A i \in 1..Len(cs) : [j \in 1..Len(cs[i]) |-> cs[i][j].k] = SchemaKeys

\* The records of cs with each field value as a float.
AsFloatRecords(cs) ==
    [i \in 1..Len(cs) |->
        [ts |-> AsFloat(cs[i][1].val), open |-> AsFloat(cs[i][2].val),
         high |-> AsFloat(cs[i][3].val), low |-> AsFloat(cs[i][4].val),
         close |-> AsFloat(cs[i][5].val)]]

\* The file the last call named.
TheFile == fs[call.file]

\* A data row load cannot parse: fewer than 5 columns, or a non-numeric value
\* among the first 5.
BadRow(line) ==
    LET row == reader_row(line)
    IN  \/ Len(row) < 5
        \/ \E k \in 1..5 : k <= Len(row) /\ ~parse_float(row[k]).ok

ColumnRecord(line) ==
    LET row == reader_row(line)
    IN  [ts |-> parse_float(row[1]).val, open |-> parse_float(row[2]).val,
         high |-> parse_float(row[3]).val, low |-> parse_float(row[4]).val,
         close |-> parse_float(row[5]).val]

\* The path's extension (what follows its last dot) is csv.
HasCsvExtension(path) ==
    Len(path) >= Len(DOTCSV) /\ SubSeq(path, Len(path) - Len(DOTCSV) + 1, Len(path)) = DOTCSV

\* C1: a load of a path containing ".csv" to which the last dump wrote a
\* non-empty sequence of records with fields ts, open, high, low, close in
\* that order returns the same records, in order, with float values.
C1_RoundTrip ==
    (/\ call.op = "load"
     /\ Find(call.file, DOTCSV) # -1
     /\ lastDump[call.file].ok
     /\ InSchema(lastDump[call.file].seq))
    => result = Return("tuple", AsFloatRecords(lastDump[call.file].seq))

C1_Witness ==
    /\ call.op = "load"
    /\ lastDump[call.file].ok
    /\ lastDump[call.file].seq = <<CandleB, CandleA>>
    /\ result.ret = "tuple"
    /\ Len(result.seq) = 2

\* C2: a dump with neither amount nor start prints the wrong-parameters error
\* and returns, calls no retrieval method, opens no file and leaves every
\* file as it was.
C2_MissingSelection ==
    [][(call'.op = "dump" /\ call'.amount = None /\ call'.start = None)
       => (/\ printed' = <<MSG_WRONG_PARAMS>>
           /\ result' = ReturnNone
           /\ retrievals' = <<>>
           /\ handles' = <<>>
           /\ fs' = fs)]_vars

C2_Witness ==
    /\ call.op = "dump" /\ call.amount = None /\ call.start = None /\ call.end # None
    /\ TheFile.exists /\ TheFile.lines # <<>>
    /\ printed = <<MSG_WRONG_PARAMS>>

\* C3: a load that opens a file with a malformed row after the first ends in
\* IndexError or ValueError and returns no sequence.
C3_MalformedRow ==
    (/\ call.op = "load"
     /\ handles # <<>>
     /\ \E i \in 2..Len(TheFile.lines) : BadRow(TheFile.lines[i]))
    => (result.kind = "raise" /\ result.exc \in {"IndexError", "ValueError"}
        /\ result.seq = <<>>)

C3_Witness ==
    /\ call.op = "load" /\ handles # <<>>
    /\ Len(TheFile.lines) = 3
    /\ ~BadRow(TheFile.lines[2])
    /\ BadRow(TheFile.lines[3])
    /\ result.kind = "raise"

\* C4: a load of a path whose extension is not .csv prints the not-csv error,
\* returns -1 and opens no file.
C4_InvalidExtension ==
    (call.op = "load" /\ ~HasCsvExtension(call.file))
    => (result = ReturnMinusOne /\ printed = <<MSG_NOT_CSV>> /\ handles = <<>>)

\* C5: a dump whose retrieval returned zero candles does not end in the
\* IndexError of the first-element access.
C5_EmptyResultDecided ==
    (call.op = "dump" /\ retrievals # <<>> /\ handles # <<>> /\ candles = <<>>)
    => ~(result.kind = "raise" /\ result.exc = "IndexError")

\* C6: a dump invokes at most one retrieval: get_last_candles(symbol,
\* interval, amount) when amount is given, get_candles(symbol, interval,
\* start, end) when amount is absent and start is given.
C6_SelectionPrecedence ==
    call.op = "dump" =>
        /\ Len(retrievals) <= 1
        /\ (call.amount # None) =>
              retrievals = <<Retrieval("get_last_candles", call.symbol, call.interval,
                                       call.amount, None, None)>>
        /\ (call.amount = None /\ call.start # None) =>
              retrievals = <<Retrieval("get_candles", call.symbol, call.interval,
                                       None, call.start, call.end)>>

C6_Witness ==
    /\ call.op = "dump" /\ call.amount = Some(0) /\ call.start # None
    /\ Len(retrievals) = 1 /\ retrievals[1].op = "get_last_candles"

\* The record's value for the field named key.
ValueFor(line, key) == line[CHOOSE j \in 1..Len(line) : line[j].k = key].val

\* C7: after a dump of a non-empty sequence the file is one header row, the
\* first record's field names, and one row per candle in order whose column
\* k is that record's value for the field named in header column k.
C7_DumpShape ==
    (call.op = "dump" /\ result = ReturnNone /\ candles # <<>>)
    => /\ Len(TheFile.lines) = Len(candles) + 1
       /\ TheFile.lines[1] = writerow(dict_keys(candles[1]))
       /\ \A i \in 1..Len(candles) :
             TheFile.lines[i + 1] =
                writerow([k \in 1..Len(candles[1]) |-> ValueFor(candles[i], candles[1][k].k)])

\* The retrieval method a dump with these arguments selects, if any.
Selected(c) ==
    IF c.amount # None THEN {"get_last_candles"}
    ELSE IF c.start # None THEN {"get_candles"}
    ELSE {}

\* C8: a contract method the class does not override raises
\* NotImplementedError; a dump that selects such a retrieval method ends in
\* the same NotImplementedError, opens no file and leaves every file as it was.
C8_Unimplemented ==
    [][/\ (call'.op \in ContractOps /\ call'.op \notin adapter)
          => result' = Raise("NotImplementedError")
       /\ (call'.op = "dump" /\ Selected(call') # {} /\ Selected(call') \cap adapter = {})
          => (result' = Raise("NotImplementedError") /\ handles' = <<>> /\ fs' = fs)]_vars

C8_Witness ==
    /\ call.op = "dump" /\ call.amount = None /\ call.start # None
    /\ TheFile.exists /\ TheFile.lines # <<>>
    /\ result = Raise("NotImplementedError")

\* C9: every file a call opened is closed when the call has ended, whether it
\* returned or raised.
C9_HandlesClosed == \A i \in 1..Len(handles) : handles[i].closed

C9_Witness ==
    /\ call.op = "load" /\ Len(handles) = 1
    /\ result.kind = "raise" /\ result.exc = "ValueError"
    /\ Len(TheFile.lines) = 3

\* C10: a load that opens a well-formed file of n >= 1 rows returns n-1
\* records, the i-th from columns 1 to 5 of row i+1 as ts, open, high, low,
\* close, whatever the first row holds.
C10_HeaderSkip ==
    (/\ call.op = "load"
     /\ handles # <<>>
     /\ Len(TheFile.lines) >= 1
     /\ \A i \in 2..Len(TheFile.lines) : ~BadRow(TheFile.lines[i]))
    => result = Return("tuple", [i \in 1..(Len(TheFile.lines) - 1) |->
                                    ColumnRecord(TheFile.lines[i + 1])])

C10_Witness ==
    /\ call.op = "load" /\ handles # <<>>
    /\ TheFile.lines = <<L_text, L_good2, L_good1>>
    /\ result.ret = "tuple"
    /\ Len(result.seq) = 2

====
